---- MODULE Spec2Model ----
(***************************************************************************)
(* Model of src/main.py: the cold-start loader load_model() and the HTTP   *)
(* handler predict_telemetry(request).                                     *)
(*                                                                         *)
(* Numbers are fixed-point integers in thousandths (120.5 is 120500).      *)
(* Python values of differing types are uniform records so that they can   *)
(* be compared; None is the record whose type tag is "None".               *)
(***************************************************************************)
EXTENDS Integers, Sequences, FiniteSets, TLC

VARIABLES
    model_file,      \* what model.joblib holds on disk
    artifacts_file,  \* what model_artifacts.json holds on disk
    model,           \* global `model`
    artifacts,       \* global `artifacts`
    load_result,     \* what load_model() returned ("none" before it ran)
    pc,              \* "cold" before line 40 ran, "serving" after, "crashed"
    prev,            \* the exchange (request, response) before the last one
    last             \* the last exchange

vars == <<model_file, artifacts_file, model, artifacts, load_result, pc, prev, last>>

(***************************************************************************)
(* Python / JSON values                                                    *)
(***************************************************************************)
JNone      == [t |-> "None", s |-> "", n |-> 0]
JStr(str)  == [t |-> "str",  s |-> str, n |-> 0]
JNum(num)  == [t |-> "num",  s |-> "", n |-> num]
JBool(b)   == [t |-> "bool", s |-> "", n |-> IF b THEN 1000 ELSE 0]
JList      == [t |-> "list", s |-> "", n |-> 0]
JDict      == [t |-> "dict", s |-> "", n |-> 0]

\* `sub in s` on Python strings
Contains(sub, s) ==
    \E i \in 1..(Len(s) - Len(sub) + 1) : SubSeq(s, i, i + Len(sub) - 1) = sub

Digits == {"0", "1", "2", "3", "4", "5", "6", "7", "8", "9"}

DigitVal(c) ==
    CASE c = "0" -> 0 [] c = "1" -> 1 [] c = "2" -> 2 [] c = "3" -> 3
      [] c = "4" -> 4 [] c = "5" -> 5 [] c = "6" -> 6 [] c = "7" -> 7
      [] c = "8" -> 8 [] c = "9" -> 9

Char(s, i) == SubSeq(s, i, i)

AllDigits(s) == \A i \in 1..Len(s) : Char(s, i) \in Digits

RECURSIVE DigitsVal(_)
DigitsVal(s) ==
    IF Len(s) = 0 THEN 0
    ELSE 10 * DigitsVal(SubSeq(s, 1, Len(s) - 1)) + DigitVal(Char(s, Len(s)))

RECURSIVE Strip(_)
\* str.strip() as float() applies it to its argument
Strip(s) ==
    IF Len(s) > 0 /\ Char(s, 1) = " " THEN Strip(SubSeq(s, 2, Len(s)))
    ELSE IF Len(s) > 0 /\ Char(s, Len(s)) = " " THEN Strip(SubSeq(s, 1, Len(s) - 1))
    ELSE s

\* position of the first "." of s, 0 when there is none
PointAt(s) ==
    IF \E i \in 1..Len(s) : Char(s, i) = "."
    THEN CHOOSE i \in 1..Len(s) :
            Char(s, i) = "." /\ \A j \in 1..(i - 1) : Char(s, j) # "."
    ELSE 0

\* fraction digits scaled to thousandths (digits past the third are dropped)
FracVal(f) ==
    IF Len(f) = 0 THEN 0
    ELSE IF Len(f) = 1 THEN 100 * DigitsVal(f)
    ELSE IF Len(f) = 2 THEN 10 * DigitsVal(f)
    ELSE DigitsVal(SubSeq(f, 1, 3))

\* an unsigned decimal literal: digits [ "." [digits] ] or "." digits
ParseUnsigned(u) ==
    LET p  == PointAt(u)
        ip == IF p = 0 THEN u ELSE SubSeq(u, 1, p - 1)
        fp == IF p = 0 THEN "" ELSE SubSeq(u, p + 1, Len(u))
    IN IF AllDigits(ip) /\ AllDigits(fp) /\ Len(ip) + Len(fp) > 0
       THEN [exc |-> "", val |-> 1000 * DigitsVal(ip) + FracVal(fp)]
       ELSE [exc |-> "ValueError", val |-> 0]

\* float(str): surrounding blanks ignored, optional sign, decimal literal
ParseFloat(s) ==
    LET t    == Strip(s)
        sgn  == Len(t) > 0 /\ Char(t, 1) \in {"+", "-"}
        body == IF sgn THEN SubSeq(t, 2, Len(t)) ELSE t
        r    == ParseUnsigned(body)
    IN IF r.exc = "" /\ sgn /\ Char(t, 1) = "-"
       THEN [exc |-> "", val |-> 0 - r.val]
       ELSE r

\* float(x) of line 86 on a value that is not None
float(x) ==
    CASE x.t = "str"  -> ParseFloat(x.s)
      [] x.t = "num"  -> [exc |-> "", val |-> x.n]
      [] x.t = "bool" -> [exc |-> "", val |-> x.n]
      [] OTHER        -> [exc |-> "TypeError", val |-> 0]

\* round(value, ndigits) on thousandths: to a multiple of step, ties to even
RoundTo(value, step) ==
    LET q == value \div step
        r == value % step
    IN IF 2 * r < step THEN q * step
       ELSE IF 2 * r > step THEN (q + 1) * step
       ELSE IF q % 2 = 0 THEN q * step ELSE (q + 1) * step

(***************************************************************************)
(* The two artifacts on disk                                               *)
(***************************************************************************)
NoneModel == [kind |-> "None", offs |-> <<>>]

\* a fitted regressor: predict() yields one row, input plus a per-column offset
Regressor(offs) == [kind |-> "regressor", offs |-> offs]

\* an object whose predict() raises (not an estimator, incompatible pickle)
BrokenModel == [kind |-> "broken", offs |-> <<>>]

NoneArtifacts == [shape |-> "None", keys |-> {}, input_features |-> <<>>, output_features |-> <<>>]

\* a JSON document that is an array, not an object
ListArtifacts == [shape |-> "list", keys |-> {}, input_features |-> <<>>, output_features |-> <<>>]

ObjectArtifacts(keys, ins, outs) ==
    [shape |-> "dict", keys |-> keys, input_features |-> ins, output_features |-> outs]

InputFeature == "raw_mill_load"

OutputFeatures ==
    << "motor_vibration_x", "motor_vibration_y", "outlet_pressure", "inlet_pressure",
       "air_flow", "flow_vibration", "bearing_temperature", "motor_current",
       "mill_load", "Vibration_index", "pressure_flow", "gas_Flow_rate" >>

WellFormedArtifacts ==
    ObjectArtifacts({"input_features", "output_features"}, <<InputFeature>>, OutputFeatures)

Offsets ==
    << 3141, 12600, 65340, 7262, 21873, 5419, 65707, 48118, 90936, 1384, 33229, 17661 >>

ModelFiles ==
    { [state |-> "missing", object |-> NoneModel],
      [state |-> "corrupt", object |-> NoneModel],
      [state |-> "ok", object |-> Regressor(Offsets)],
      [state |-> "ok", object |-> Regressor(SubSeq(Offsets, 1, Len(Offsets) - 1))],
      [state |-> "ok", object |-> BrokenModel] }

ArtifactsFiles ==
    { [state |-> "missing", json |-> NoneArtifacts],
      [state |-> "malformed", json |-> NoneArtifacts],
      [state |-> "ok", json |-> NoneArtifacts],
      [state |-> "ok", json |-> ListArtifacts],
      [state |-> "ok", json |-> ObjectArtifacts({"output_features"}, <<>>, OutputFeatures)],
      [state |-> "ok", json |-> ObjectArtifacts({"input_features", "output_features"}, <<>>, OutputFeatures)],
      [state |-> "ok", json |-> ObjectArtifacts({"input_features"}, <<InputFeature>>, <<>>)],
      [state |-> "ok", json |-> WellFormedArtifacts] }

\* joblib.load(MODEL_FILE), line 24
joblib_load(file) ==
    CASE file.state = "missing" -> [exc |-> "FileNotFoundError", value |-> NoneModel]
      [] file.state = "corrupt" -> [exc |-> "UnpicklingError", value |-> NoneModel]
      [] OTHER                  -> [exc |-> "", value |-> file.object]

\* open(ARTIFACTS_FILE) and json.load(f), lines 26-27
json_load(file) ==
    CASE file.state = "missing"   -> [exc |-> "FileNotFoundError", value |-> NoneArtifacts]
      [] file.state = "malformed" -> [exc |-> "JSONDecodeError", value |-> NoneArtifacts]
      [] OTHER                    -> [exc |-> "", value |-> file.json]

\* the classes the two except clauses of load_model catch, lines 32 and 35
ExceptionSubclasses == {"FileNotFoundError", "UnpicklingError", "JSONDecodeError"}

CaughtByLoad(exc) ==
    \/ exc = "FileNotFoundError"
    \/ exc \in ExceptionSubclasses

(***************************************************************************)
(* Requests and responses                                                  *)
(***************************************************************************)
headers ==
    { <<"Access-Control-Allow-Origin", "*">>,
      <<"Access-Control-Allow-Methods", "POST, GET, OPTIONS">>,
      <<"Access-Control-Allow-Headers", "Content-Type">> }

\* a returned tuple (text, status, headers)
TextResponse(text, status) ==
    [raised |-> FALSE, status |-> status, text |-> text, json |-> <<>>, headers |-> headers]

\* a returned tuple (dict, status, headers)
JsonResponse(body, status) ==
    [raised |-> FALSE, status |-> status, text |-> "", json |-> body, headers |-> headers]

\* the handler was left by an exception: it produced no response
Raised == [raised |-> TRUE, status |-> 0, text |-> "", json |-> <<>>, headers |-> {}]

\* a mapping (dict or MultiDict) is a set of <<key, value>> pairs
Get(items, key) ==
    IF \E p \in items : p[1] = key
    THEN (CHOOSE p \in items : p[1] = key)[2]
    ELSE JNone

NoData       == [t |-> "None", items |-> {}]
ListData     == [t |-> "list", items |-> {}]
DictData(it) == [t |-> "dict", items |-> it]

\* request.get_json(silent=True), line 72: None when the body is absent,
\* is not JSON or is the JSON null; else the parsed document
get_json(request) == request.json

\* variant: an empty query string yields None
args_NoneWhenEmpty(request) ==
    IF request.args = {} THEN NoData ELSE DictData(request.args)

\* request.args, line 74: always a mapping, of strings
args(request) == DictData(request.args)

\* variant: the query parameters are read whatever the method
request_data_of_AlwaysArgs(request) == args(request)

\* lines 71-74
request_data_of(request) ==
    IF request.method = "POST" THEN get_json(request) ELSE args(request)

(***************************************************************************)
(* load_model(), lines 17-37                                               *)
(***************************************************************************)
load_model ==
    LET m   == joblib_load(model_file)
        a   == json_load(artifacts_file)
        exc == IF m.exc # "" THEN m.exc ELSE a.exc
    IN [ model     |-> IF m.exc = "" THEN m.value ELSE model,
         artifacts |-> IF m.exc = "" /\ a.exc = "" THEN a.value ELSE artifacts,
         result    |-> IF exc = "" THEN "True" ELSE "False",
         escaped   |-> exc # "" /\ ~CaughtByLoad(exc) ]

(***************************************************************************)
(* predict_telemetry(request), lines 43-123                                *)
(***************************************************************************)
\* variant: only the model handle is tested
ModelNotLoaded_ModelOnly == model = NoneModel

\* line 64
ModelNotLoaded == model = NoneModel \/ artifacts = NoneArtifacts

\* variant: the preflight is answered only once the context is loaded
Preflight_WhenLoaded(request) == request.method = "OPTIONS" /\ ~ModelNotLoaded

\* lines 60-61
Preflight(request) == request.method = "OPTIONS"

\* the except clauses of lines 88-92; bound tells whether input_feature_name
\* was assigned before the exception was raised
InputExcept(exc, bound, name) ==
    IF exc \in {"ValueError", "TypeError"}
    THEN IF bound
         THEN [outcome |-> "return", val |-> 0,
               response |-> TextResponse("Bad Request: Invalid value for '" \o name
                                         \o "'. Must be a number.", 400)]
         ELSE [outcome |-> "return", val |-> 0, response |-> Raised]
    ELSE [outcome |-> "return", val |-> 0,
          response |-> TextResponse("Bad Request: Could not parse input.", 400)]

\* artifacts['input_features'][0], line 80
InputFeatureName ==
    CASE artifacts.shape # "dict"                -> [exc |-> "TypeError", name |-> ""]
      [] "input_features" \notin artifacts.keys  -> [exc |-> "KeyError", name |-> ""]
      [] Len(artifacts.input_features) = 0       -> [exc |-> "IndexError", name |-> ""]
      [] OTHER -> [exc |-> "", name |-> artifacts.input_features[1]]

\* the first try block, lines 69-92
InputValidation(request) ==
    LET request_data == request_data_of(request)
        lookup       == InputFeatureName
        input_feature_name == lookup.name
        raw_mill_load_str  == Get(request_data.items, input_feature_name)
        raw_mill_load_val  == float(raw_mill_load_str)
    IN IF request_data.t = "None"
       THEN [outcome |-> "return", val |-> 0,
             response |-> TextResponse("Bad Request: Missing or invalid JSON payload.", 400)]
       ELSE IF lookup.exc # ""
       THEN InputExcept(lookup.exc, FALSE, "")
       ELSE IF request_data.t # "dict"
       THEN InputExcept("AttributeError", TRUE, input_feature_name)
       ELSE IF raw_mill_load_str = JNone
       THEN [outcome |-> "return", val |-> 0,
             response |-> TextResponse("Bad Request: Missing '" \o input_feature_name
                                       \o "' parameter.", 400)]
       ELSE IF raw_mill_load_val.exc # ""
       THEN InputExcept(raw_mill_load_val.exc, TRUE, input_feature_name)
       ELSE [outcome |-> "continue", val |-> raw_mill_load_val.val, response |-> Raised]

\* model.predict(input_df)[0], lines 97-100 and 105
predict(raw_mill_load_val) ==
    IF model.kind = "regressor" /\ Len(artifacts.input_features) = 1
    THEN [exc |-> "", row |-> [i \in 1..Len(model.offs) |-> raw_mill_load_val + model.offs[i]]]
    ELSE [exc |-> "Exception", row |-> <<>>]

Min(a, b) == IF a < b THEN a ELSE b

\* variant: the last pair is dropped
zip_DropsLast(names, row) ==
    [i \in 1..(Min(Len(names), Len(row)) - 1) |-> <<names[i], row[i]>>]

\* zip(output_features, prediction_values[0]), line 105
zip(names, row) == [i \in 1..Min(Len(names), Len(row)) |-> <<names[i], row[i]>>]

\* dict(pairs), line 105: a key keeps the place of its first occurrence and
\* the value of its last
dict(pairs) ==
    LET firsts == SelectSeq([i \in 1..Len(pairs) |-> <<i, pairs[i][1]>>],
                            LAMBDA e : \A j \in 1..(e[1] - 1) : pairs[j][1] # e[2])
        lastOf(k) == CHOOSE i \in 1..Len(pairs) :
                        pairs[i][1] = k /\ \A j \in (i + 1)..Len(pairs) : pairs[j][1] # k
    IN [i \in 1..Len(firsts) |-> <<firsts[i][2], pairs[lastOf(firsts[i][2])][2]>>]

\* variant: the "pressure"/"flow" test comes first
Decimals_PressureFirst(key) ==
    IF Contains("pressure", key) \/ Contains("flow", key) THEN 0
    ELSE IF Contains("vibration", key) THEN 2
    ELSE 1

\* the number of decimal places lines 109-115 choose for a key
Decimals(key) ==
    IF Contains("vibration", key) THEN 2
    ELSE IF Contains("pressure", key) \/ Contains("flow", key) THEN 0
    ELSE 1

\* round(value, ndigits) on thousandths
round(value, ndigits) ==
    RoundTo(value, CASE ndigits = 2 -> 10 [] ndigits = 1 -> 100 [] ndigits = 0 -> 1000)

\* the loop of lines 108-115
RoundAll(prediction_dict) ==
    [i \in 1..Len(prediction_dict) |->
        <<prediction_dict[i][1], round(prediction_dict[i][2], Decimals(prediction_dict[i][1]))>>]

\* the second try block, lines 95-123
Prediction(raw_mill_load_val) ==
    LET prediction_values == predict(raw_mill_load_val)
    IN IF prediction_values.exc # "" \/ "output_features" \notin artifacts.keys
       THEN TextResponse("Internal Server Error: Prediction failed.", 500)
       ELSE JsonResponse(RoundAll(dict(zip(artifacts.output_features, prediction_values.row))), 200)

predict_telemetry(request) ==
    IF Preflight(request)
    THEN TextResponse("", 204)
    ELSE IF ModelNotLoaded
    THEN TextResponse("Internal Server Error: Model not loaded", 500)
    ELSE LET v == InputValidation(request)
         IN IF v.outcome = "return" THEN v.response ELSE Prediction(v.val)

(***************************************************************************)
(* Requests the handler is called with                                     *)
(***************************************************************************)
Methods == {"OPTIONS", "GET", "POST", "PUT"}

ArgValues == {"120.5", "abc", "", "-3"}

\* query strings: none, the input field, another field
QueryArgs ==
    {{}} \cup {{<<InputFeature, JStr(v)>>} : v \in ArgValues} \cup {{<<"unit", JStr("tph")>>}}

FieldValues ==
    {JStr(v) : v \in ArgValues} \cup
    {JStr(" 42 "), JNum(120500), JNone, JList, JDict, JBool(TRUE)}

\* request bodies as get_json sees them: no JSON (or JSON null), an array,
\* an object without the field, an object with the field
Bodies ==
    {NoData, ListData, DictData({}), DictData({<<"unit", JStr("tph")>>})}
    \cup {DictData({<<InputFeature, v>>}) : v \in FieldValues}

Requests ==
    [method : Methods \ {"POST"}, args : QueryArgs, json : {NoData}]
    \cup [method : {"POST"}, args : {{}}, json : Bodies]
    \cup { [method |-> "POST", args |-> {<<InputFeature, JStr("120.5")>>}, json |-> NoData],
           [method |-> "GET", args |-> {}, json |-> DictData({<<InputFeature, JStr("120.5")>>})] }

NoExchange == [req |-> [method |-> "", args |-> {}, json |-> NoData], resp |-> Raised]

(***************************************************************************)
(* The process                                                             *)
(***************************************************************************)
Init ==
    /\ model_file \in ModelFiles
    /\ artifacts_file \in ArtifactsFiles
    /\ model = NoneModel
    /\ artifacts = NoneArtifacts
    /\ load_result = "none"
    /\ pc = "cold"
    /\ prev = NoExchange
    /\ last = NoExchange

\* line 40: the module body calls load_model() once, at import
ColdStart ==
    /\ pc = "cold"
    /\ LET r == load_model
       IN /\ model' = r.model
          /\ artifacts' = r.artifacts
          /\ load_result' = r.result
          /\ pc' = IF r.escaped THEN "crashed" ELSE "serving"
    /\ UNCHANGED <<model_file, artifacts_file, prev, last>>

\* variant: line 80 pops the input feature name off the descriptor
Handle_PopsInputFeature(request) ==
    /\ pc = "serving"
    /\ prev' = last
    /\ last' = [req |-> request, resp |-> predict_telemetry(request)]
    /\ artifacts' =
          IF /\ ~Preflight(request)
             /\ ~ModelNotLoaded
             /\ request_data_of(request).t # "None"
             /\ InputFeatureName.exc = ""
          THEN [artifacts EXCEPT !.input_features = Tail(@)]
          ELSE artifacts
    /\ UNCHANGED <<model_file, artifacts_file, model, load_result, pc>>

\* the framework calls the handler with one request
Handle(request) ==
    /\ pc = "serving"
    /\ prev' = last
    /\ last' = [req |-> request, resp |-> predict_telemetry(request)]
    /\ UNCHANGED <<model_file, artifacts_file, model, artifacts, load_result, pc>>

Next ==
    \/ ColdStart
    \/ \E request \in Requests : Handle(request)

Spec == Init /\ [][Next]_vars

(***************************************************************************)
(* Vocabulary of the properties                                            *)
(***************************************************************************)
CorsHeaders ==
    { <<"Access-Control-Allow-Origin", "*">>,
      <<"Access-Control-Allow-Methods", "POST, GET, OPTIONS">>,
      <<"Access-Control-Allow-Headers", "Content-Type">> }

Answered == last.req.method # ""

\* the payload the request's method makes relevant
Payload(req) == IF req.method = "POST" THEN req.json ELSE DictData(req.args)

HasField(req) == \E p \in Payload(req).items : p[1] = "raw_mill_load"

FieldOf(req) == (CHOOSE p \in Payload(req).items : p[1] = "raw_mill_load")[2]

\* numeric strings with the number each denotes, in thousandths
NumericStrings == { <<"120.5", 120500>>, <<"-3", 0 - 3000>>, <<" 42 ", 42000>> }

NonNumericStrings == {"abc", ""}

NonNumeric(v) ==
    \/ v.t \in {"None", "list", "dict", "bool"}
    \/ v.t = "str" /\ v.s \in NonNumericStrings

\* the Model Context of the data model: a model handle and a descriptor with
\* one input feature name and a list of output feature names
ContextLoaded ==
    /\ pc = "serving"
    /\ model # NoneModel
    /\ artifacts.shape = "dict"
    /\ artifacts.keys = {"input_features", "output_features"}
    /\ artifacts.input_features = <<"raw_mill_load">>

\* ... whose regressor returns one value per output feature
ContextConforms ==
    /\ ContextLoaded
    /\ model.kind = "regressor"
    /\ Len(model.offs) = Len(artifacts.output_features)

Abs(x) == IF x < 0 THEN 0 - x ELSE x

\* val is raw rounded to a multiple of step
Rounded(val, raw, step) == val % step = 0 /\ 2 * Abs(val - raw) <= step

(***************************************************************************)
(* C1: if load_model() failed, every later request whose method is not     *)
(* OPTIONS gets a 500 response whose body says the model is not loaded,    *)
(* and load_model() never lets an exception escape.                        *)
(***************************************************************************)
C1_LoadFailureGives500 ==
    /\ pc # "crashed"
    /\ (load_result = "False" /\ Answered /\ last.req.method # "OPTIONS")
         => /\ ~last.resp.raised
            /\ last.resp.status = 500
            /\ Contains("Model not loaded", last.resp.text)

\* the partial case: the model blob loaded, the descriptor did not, and a
\* POST with a payload that is no mapping was answered
C1_Witness ==
    /\ load_result = "False"
    /\ model # NoneModel
    /\ artifacts = NoneArtifacts
    /\ last.req.method = "POST"
    /\ last.req.json = ListData
    /\ last.resp.status = 500

(***************************************************************************)
(* C2: every request the handler is called with ends in a response that    *)
(* carries the three CORS headers.                                         *)
(***************************************************************************)
C2_EveryResponseHasCors ==
    Answered => (~last.resp.raised /\ last.resp.headers = CorsHeaders)

(***************************************************************************)
(* C3: an OPTIONS request gets status 204, an empty body and the three     *)
(* CORS headers, whatever the Model Context and the payload.               *)
(***************************************************************************)
C3_OptionsIs204 ==
    (Answered /\ last.req.method = "OPTIONS")
      => /\ ~last.resp.raised
         /\ last.resp.status = 204
         /\ last.resp.text = ""
         /\ last.resp.json = <<>>
         /\ last.resp.headers = CorsHeaders

C3_Witness ==
    /\ last.req.method = "OPTIONS"
    /\ last.req.args # {}
    /\ model = NoneModel
    /\ last.resp.status = 204

(***************************************************************************)
(* C4 as stated: with a loaded Model Context, every GET or POST request    *)
(* missing the input field (no payload at all included) gets a 400 whose   *)
(* body names the field.                                                   *)
(***************************************************************************)
C4_MissingFieldNamesField ==
    (ContextLoaded /\ last.req.method \in {"GET", "POST"} /\ ~HasField(last.req))
      => /\ last.resp.status = 400
         /\ Contains("raw_mill_load", last.resp.text)

(***************************************************************************)
(* C4 amended: with a loaded Model Context, every GET or POST request      *)
(* missing the input field gets a 400; the body names the field when the   *)
(* payload is a key-value mapping, a POST without a JSON payload gets      *)
(* "Missing or invalid JSON payload." and a POST whose JSON payload is no  *)
(* object gets "Could not parse input.".                                   *)
(***************************************************************************)
C4_MissingFieldIs400 ==
    (ContextLoaded /\ last.req.method \in {"GET", "POST"} /\ ~HasField(last.req))
      => /\ ~last.resp.raised
         /\ last.resp.status = 400
         /\ Payload(last.req).t = "dict"
              => last.resp.text = "Bad Request: Missing 'raw_mill_load' parameter."
         /\ Payload(last.req).t = "None"
              => last.resp.text = "Bad Request: Missing or invalid JSON payload."
         /\ Payload(last.req).t = "list"
              => last.resp.text = "Bad Request: Could not parse input."

\* a GET without any query parameter was answered by a loaded context
C4_Witness ==
    /\ ContextLoaded
    /\ last.req.method = "GET"
    /\ last.req.args = {}
    /\ last.resp.status = 400
    /\ Contains("raw_mill_load", last.resp.text)

(***************************************************************************)
(* C5: with a loaded Model Context, a GET or POST whose input field holds  *)
(* a non-numeric value (a non-numeric string, null, a list, an object, a   *)
(* boolean, the empty string) gets a 400 and no prediction.                *)
(***************************************************************************)
C5_NonNumericIs400 ==
    (ContextLoaded /\ last.req.method \in {"GET", "POST"}
        /\ HasField(last.req) /\ NonNumeric(FieldOf(last.req)))
      => /\ last.resp.status = 400
         /\ last.resp.json = <<>>

(***************************************************************************)
(* C6: with a loaded Model Context, a POST of {"raw_mill_load": v} for a   *)
(* numeric string v gets a 200 whose JSON object has exactly the 12        *)
(* configured output feature names as keys, in output_features order, each *)
(* mapped to the model's output at the same position.                      *)
(***************************************************************************)
C6_NumericStringGives12Outputs ==
    \A p \in NumericStrings :
        (ContextConforms /\ last.req.method = "POST"
            /\ last.req.json = DictData({<<"raw_mill_load", JStr(p[1])>>}))
          => /\ last.resp.status = 200
             /\ last.resp.headers = CorsHeaders
             /\ Len(last.resp.json) = 12
             /\ \A i \in 1..12 :
                   /\ last.resp.json[i][1] = artifacts.output_features[i]
                   /\ 2 * Abs(last.resp.json[i][2] - (p[2] + model.offs[i])) <= 1000

C6_Witness ==
    /\ ContextConforms
    /\ last.req.method = "POST"
    /\ last.req.json = DictData({<<"raw_mill_load", JStr("-3")>>})
    /\ last.resp.status = 200
    /\ Len(last.resp.json) = 12

(***************************************************************************)
(* C7: for the same Model Context, a GET carrying a value as the query     *)
(* parameter raw_mill_load and a POST carrying it in a JSON body get the   *)
(* same status and the same body, whether the value is valid, missing or   *)
(* non-numeric.                                                            *)
(***************************************************************************)
SameValue(query, items) ==
    \/ query = items
    \/ /\ query = {<<"raw_mill_load", JStr("120.5")>>}
       /\ items = {<<"raw_mill_load", JNum(120500)>>}

GetPostPair(g, p) ==
    /\ g.req.method = "GET"
    /\ p.req.method = "POST"
    /\ p.req.json.t = "dict"
    /\ SameValue(g.req.args, p.req.json.items)

SameAnswer(a, b) ==
    /\ a.resp.raised = b.resp.raised
    /\ a.resp.status = b.resp.status
    /\ a.resp.text = b.resp.text
    /\ a.resp.json = b.resp.json

C7_GetAndPostAgree ==
    /\ GetPostPair(prev, last) => SameAnswer(prev, last)
    /\ GetPostPair(last, prev) => SameAnswer(last, prev)

C7_Witness ==
    /\ ContextConforms
    /\ GetPostPair(prev, last)
    /\ last.req.json.items = {<<"raw_mill_load", JNum(120500)>>}
    /\ prev.resp.status = 200
    /\ last.resp.status = 200

(***************************************************************************)
(* C8: each output value is rounded to 2 decimal places when its name      *)
(* contains "vibration" (even when it also contains "pressure" or "flow"), *)
(* else to 0 decimal places when it contains "pressure" or "flow", else to *)
(* 1 decimal place; the match is case-sensitive.                           *)
(***************************************************************************)
TwoPlaces == {"motor_vibration_x", "motor_vibration_y", "flow_vibration"}

ZeroPlaces == {"outlet_pressure", "inlet_pressure", "air_flow", "pressure_flow"}

OnePlace ==
    {"bearing_temperature", "motor_current", "mill_load", "Vibration_index", "gas_Flow_rate"}

SentNumber(req) ==
    LET v == FieldOf(req)
    IN IF v.t = "str" THEN (CHOOSE p \in NumericStrings : p[1] = v.s)[2] ELSE v.n

C8_RoundingByName ==
    (Answered /\ last.resp.status = 200)
      => \A i \in 1..Len(last.resp.json) :
            LET key == last.resp.json[i][1]
                val == last.resp.json[i][2]
                raw == SentNumber(last.req) + model.offs[i]
            IN /\ key \in TwoPlaces \cup ZeroPlaces \cup OnePlace
               /\ key \in TwoPlaces  => Rounded(val, raw, 10)
               /\ key \in ZeroPlaces => Rounded(val, raw, 1000)
               /\ key \in OnePlace   => Rounded(val, raw, 100)

C8_Witness ==
    /\ last.resp.status = 200
    /\ Len(last.resp.json) = 12
    /\ last.req.args = {<<"raw_mill_load", JStr("120.5")>>}
    /\ last.req.method = "GET"
    /\ last.resp.json[6] = <<"flow_vibration", 125920>>
    /\ last.resp.json[3] = <<"outlet_pressure", 186000>>
    /\ last.resp.json[10] = <<"Vibration_index", 121900>>

(***************************************************************************)
(* C9: once load_model() has run, no step changes the model handle or the  *)
(* artifacts descriptor, and load_model() does not run again: no request   *)
(* mutates, loads or reloads the context.                                  *)
(***************************************************************************)
C9_ContextWrittenOnlyByLoad ==
    [][pc # "cold" => (model' = model /\ artifacts' = artifacts /\ pc' = pc)]_vars

\* two requests were answered by a context that load_model() left half set
C9_Witness ==
    /\ prev.req.method = "GET"
    /\ last.req.method = "POST"
    /\ model # NoneModel
    /\ artifacts = NoneArtifacts
    /\ artifacts_file.state = "malformed"
    /\ prev.resp.status = 500

(***************************************************************************)
(* C10: each request gets exactly one response, decided by the first step  *)
(* that fails in the order preflight, context check, extraction, field     *)
(* presence, type coercion, inference and formatting; 200 only when every  *)
(* step succeeded.                                                         *)
(***************************************************************************)
C10_FirstFailingStepDecides ==
    Answered =>
      LET req == last.req
          resp == last.resp
          unloaded == model = NoneModel \/ artifacts = NoneArtifacts
          served == req.method # "OPTIONS" /\ ~unloaded
          mapping == Payload(req).t = "dict"
          numeric == mapping /\ HasField(req) /\ ~NonNumeric(FieldOf(req))
          named == /\ artifacts.shape = "dict"
                   /\ "input_features" \in artifacts.keys
                   /\ Len(artifacts.input_features) = 1
          inferable == model.kind = "regressor" /\ "output_features" \in artifacts.keys
      IN /\ ~resp.raised
         /\ req.method = "OPTIONS" => resp.status = 204
         /\ (req.method # "OPTIONS" /\ unloaded)
              => (resp.status = 500 /\ Contains("Model not loaded", resp.text))
         /\ (served /\ ~mapping) => resp.status = 400
         /\ (served /\ mapping /\ ~HasField(req)) => resp.status = 400
         /\ (served /\ mapping /\ HasField(req) /\ NonNumeric(FieldOf(req)))
              => resp.status = 400
         /\ (served /\ named /\ numeric /\ ~inferable)
              => (resp.status = 500 /\ Contains("Prediction failed", resp.text))
         /\ resp.status = 200 => (served /\ named /\ numeric /\ inferable)

====
